---- MODULE Spec2Model ----
(***************************************************************************)
(* Refresh service: RefreshService.Process (service/refresh.go) and the    *)
(* IssuerService it talks to.  One invocation of Process is modelled as a  *)
(* sequence of stages (pc); the issuing authority, the provider factory,   *)
(* the provider and the claim parser are external and answer               *)
(* nondeterministically.                                                   *)
(*                                                                         *)
(* JSON values (interface{}) are tagged records [t, v]:                    *)
(*   "null"  nil                                                           *)
(*   "str"   a Go string, v the sequence of its characters                 *)
(*           (0 is a space, 1 is 'a', 2 is 'A')                            *)
(*   "num"   a float64, v = <<n>> for the whole number n and v = <<n, 1>>  *)
(*           for n + 1/2                                                   *)
(*   "map"   a map[string]interface{} (not comparable with ==), v = <<n>>  *)
(* A subject (map[string]interface{}) is a function from its keys to such  *)
(* values.                                                                 *)
(***************************************************************************)
EXTENDS Integers, Sequences, FiniteSets, TLC

\* One second on the clock, in clock ticks (time.Time is finer than a second).
Second == 2
\* the longest list of context URIs handed to loadContexts on its own
MaxCtx == 2
\* Number values of subject fields range over 1..MaxVal.
MaxVal == 2

Null == [t |-> "null", v |-> <<>>]
Str(s) == [t |-> "str", v |-> s]
Num(n) == [t |-> "num", v |-> <<n>>]
NumHalf(n) == [t |-> "num", v |-> <<n, 1>>]
Map(n) == [t |-> "map", v |-> <<n>>]
\* marks a key that a map does not hold, while a map is being enumerated
Absent == [t |-> "absent", v |-> <<>>]

\* the map with no key
EmptyMap == [k \in {} |-> Null]

\* the map m without the keys marked Absent
Strip(m) == [k \in {x \in DOMAIN m : m[x] # Absent} |-> m[k]]

\* strings.TrimSpace
RECURSIVE TrimLeft(_)
TrimLeft(s) == IF s # <<>> /\ Head(s) = 0 THEN TrimLeft(Tail(s)) ELSE s
RECURSIVE TrimRight(_)
TrimRight(s) ==
    IF s # <<>> /\ s[Len(s)] = 0 THEN TrimRight(SubSeq(s, 1, Len(s) - 1)) ELSE s
TrimSpace(s) == TrimRight(TrimLeft(s))

\* Go's == on two interface values: "panic" when both hold the same
\* uncomparable dynamic type, otherwise whether type and value are equal.
GoEq(a, b) ==
    IF a.t = "map" /\ b.t = "map" THEN "panic"
    ELSE IF a.t = b.t /\ a.v = b.v THEN "eq" ELSE "ne"

\* "no expiration" (credential.Expiration == nil), "no subject" (nil map)
NoExp == -1
NoSubj == [t |-> "nosubject", v |-> <<>>]
NoCred == [t |-> "nocredential", v |-> <<>>]

(***************************************************************************)
(* A credential (verifiable.W3CCredential) is a record                     *)
(*   issuer    "" or a DID                                                 *)
(*   id        "" or an id                                                 *)
(*   typeNil   whether Type is nil                                         *)
(*   exp       NoExp or the expiration, in clock ticks                     *)
(*   subject   NoSubj or the CredentialSubject map                         *)
(*   status    the CredentialStatus (any JSON value; a map is              *)
(*             [t |-> "obj", v |-> the map])                               *)
(*   schemaID  CredentialSchema.ID                                         *)
(***************************************************************************)

ErrCredentialNotUpdatable == "not updatable"
errIndexSlotsNotUpdated == "no index fields were updated"
ErrIssuerNotSupported == "issuer is not supported"
ErrGetClaim == "failed to get claim"
ErrCreateClaim == "failed to create claim"

\* an error value: the sentinel it wraps ("" when it wraps none) and its text
Err(is, msg) == [is |-> is, msg |-> msg]
NoErr == [is |-> "", msg |-> "nil"]

\* isUpdatable with Before in the place of After
isUpdatable_before(credential, t) ==
    IF credential = NoCred THEN "nil credential"
    ELSE IF credential.exp = NoExp THEN "credential expiration is nil"
    ELSE IF credential.exp < t THEN "not expired"
    ELSE IF credential.subject = NoSubj THEN "credential subject is nil"
    ELSE IF "id" \notin DOMAIN credential.subject
         THEN "id field missing in credentialSubject"
    ELSE IF credential.subject["id"] = Null
         THEN "id field is nil in credentialSubject"
    ELSE IF credential.subject["id"].t # "str"
            \/ TrimSpace(credential.subject["id"].v) = <<>>
         THEN "credential subject does not have a valid id"
    ELSE "ok"

\* isUpdatable without strings.TrimSpace
isUpdatable_noTrim(credential, t) ==
    IF credential = NoCred THEN "nil credential"
    ELSE IF credential.exp = NoExp THEN "credential expiration is nil"
    ELSE IF credential.exp > t THEN "not expired"
    ELSE IF credential.subject = NoSubj THEN "credential subject is nil"
    ELSE IF "id" \notin DOMAIN credential.subject
         THEN "id field missing in credentialSubject"
    ELSE IF credential.subject["id"] = Null
         THEN "id field is nil in credentialSubject"
    ELSE IF credential.subject["id"].t # "str"
            \/ credential.subject["id"].v = <<>>
         THEN "credential subject does not have a valid id"
    ELSE "ok"

\* isUpdatable: "ok" (nil) or the text of the error it returns
isUpdatable(credential, t) ==
    IF credential = NoCred THEN "nil credential"
    ELSE IF credential.exp = NoExp THEN "credential expiration is nil"
    ELSE IF credential.exp > t THEN "not expired"
    ELSE IF credential.subject = NoSubj THEN "credential subject is nil"
    ELSE IF "id" \notin DOMAIN credential.subject
         THEN "id field missing in credentialSubject"
    ELSE IF credential.subject["id"] = Null
         THEN "id field is nil in credentialSubject"
    ELSE IF credential.subject["id"].t # "str"
            \/ TrimSpace(credential.subject["id"].v) = <<>>
         THEN "credential subject does not have a valid id"
    ELSE "ok"

\* checkOwnerShip comparing the trimmed id
checkOwnerShip_trimmed(credential, ownr) ==
    IF credential = NoCred THEN "nil credential"
    ELSE IF credential.subject = NoSubj THEN "credential subject is nil"
    ELSE IF "id" \notin DOMAIN credential.subject
         THEN "credential subject does not have an id field"
    ELSE IF credential.subject["id"].t # "str"
            \/ TrimSpace(credential.subject["id"].v) # ownr
         THEN "not owner of the credential"
    ELSE "ok"

\* checkOwnerShip: "ok" (nil) or the text of the error it returns.
\* idValue != owner compares an interface value with a string.
checkOwnerShip(credential, ownr) ==
    IF credential = NoCred THEN "nil credential"
    ELSE IF credential.subject = NoSubj THEN "credential subject is nil"
    ELSE IF "id" \notin DOMAIN credential.subject
         THEN "credential subject does not have an id field"
    ELSE IF GoEq(credential.subject["id"], Str(ownr)) # "eq"
         THEN "not owner of the credential"
    ELSE "ok"

\* Process, lines 87-105: the structural checks on the fetched credential
structuralCheck(credential) ==
    IF credential.issuer = "" THEN "credential issuer is empty"
    ELSE IF credential.id = "" THEN "credential ID is empty"
    ELSE IF credential.typeNil THEN "credential type is nil"
    ELSE IF credential.exp = NoExp THEN "credential expiration is nil"
    ELSE IF credential.subject = NoSubj THEN "credential subject is nil"
    ELSE "ok"

\* Process, lines 117-129: the subject type, "ok" or the error text
subjectTypeCheck(credential) ==
    IF "type" \notin DOMAIN credential.subject
         THEN "type field missing in credentialSubject"
    ELSE IF credential.subject["type"] = Null
         THEN "type field is nil in credentialSubject"
    ELSE IF credential.subject["type"].t # "str"
            \/ credential.subject["type"].v = <<>>
         THEN "invalid or missing type in credentialSubject"
    ELSE "ok"

(***************************************************************************)
(* isUpdatedIndexSlots.  The claim parser is external: claim is what it    *)
(* answers for the credential,                                             *)
(*   parse  "ok" or "err"           (ParseClaim)                           *)
(*   pos    "Index", "Value", "None" or "err" (GetMerklizedPosition)       *)
(*   slot   for each field, [err, idx]: err is "none" (idx is the slot),   *)
(*          "unspec" (not specified in serialization info) or "other"      *)
(*          (GetFieldSlotIndex)                                            *)
(* order is the order in which range visits the keys of oldValues.         *)
(* Results: "ok" (nil), errIndexSlotsNotUpdated, an error text, or "panic" *)
(* (v != newValue on two uncomparable values).                             *)
(***************************************************************************)
\* the range loop taking slot 2 alone for an index slot
RECURSIVE rangeOldValues_onlySlot2(_, _, _, _)
rangeOldValues_onlySlot2(order, oldValues, newValues, slot) ==
    IF order = <<>> THEN errIndexSlotsNotUpdated
    ELSE LET k == Head(order)
             next == rangeOldValues_onlySlot2(Tail(order), oldValues, newValues, slot)
         IN  IF k = "type" \/ k = "id" THEN next
             ELSE IF "type" \notin DOMAIN oldValues \/ oldValues["type"] = Null
                  THEN next
             ELSE IF oldValues["type"].t # "str" THEN next
             ELSE IF slot[k].err = "unspec" THEN "ok"
             ELSE IF slot[k].err # "none" THEN "slot index error"
             ELSE IF k \notin DOMAIN newValues THEN next
             ELSE IF slot[k].idx = 2
                  THEN LET c == GoEq(oldValues[k], newValues[k])
                       IN  IF c = "panic" THEN "panic"
                           ELSE IF c = "ne" THEN "ok"
                           ELSE next
             ELSE next

\* the range loop taking a field that the new subject lacks for a changed one
RECURSIVE rangeOldValues_missingIsChange(_, _, _, _)
rangeOldValues_missingIsChange(order, oldValues, newValues, slot) ==
    IF order = <<>> THEN errIndexSlotsNotUpdated
    ELSE LET k == Head(order)
             next == rangeOldValues_missingIsChange(Tail(order), oldValues, newValues, slot)
         IN  IF k = "type" \/ k = "id" THEN next
             ELSE IF "type" \notin DOMAIN oldValues \/ oldValues["type"] = Null
                  THEN next
             ELSE IF oldValues["type"].t # "str" THEN next
             ELSE IF slot[k].err = "unspec" THEN "ok"
             ELSE IF slot[k].err # "none" THEN "slot index error"
             ELSE IF k \notin DOMAIN newValues
                  THEN (IF slot[k].idx \in {2, 3} THEN "ok" ELSE next)
             ELSE IF slot[k].idx \in {2, 3}
                  THEN LET c == GoEq(oldValues[k], newValues[k])
                       IN  IF c = "panic" THEN "panic"
                           ELSE IF c = "ne" THEN "ok"
                           ELSE next
             ELSE next

\* the range loop ending in NotUpdated at a field that differs outside slots 2
\* and 3
RECURSIVE rangeOldValues_earlyReject(_, _, _, _)
rangeOldValues_earlyReject(order, oldValues, newValues, slot) ==
    IF order = <<>> THEN errIndexSlotsNotUpdated
    ELSE LET k == Head(order)
             next == rangeOldValues_earlyReject(Tail(order), oldValues, newValues, slot)
         IN  IF k = "type" \/ k = "id" THEN next
             ELSE IF "type" \notin DOMAIN oldValues \/ oldValues["type"] = Null
                  THEN next
             ELSE IF oldValues["type"].t # "str" THEN next
             ELSE IF slot[k].err = "unspec" THEN "ok"
             ELSE IF slot[k].err # "none" THEN "slot index error"
             ELSE IF k \notin DOMAIN newValues THEN next
             ELSE IF slot[k].idx \in {2, 3}
                  THEN LET c == GoEq(oldValues[k], newValues[k])
                       IN  IF c = "panic" THEN "panic"
                           ELSE IF c = "ne" THEN "ok"
                           ELSE next
             ELSE IF oldValues[k] # newValues[k] THEN errIndexSlotsNotUpdated
             ELSE next

\* the range loop passing over a field that is not specified in the
\* serialization info
RECURSIVE rangeOldValues_unspecSkips(_, _, _, _)
rangeOldValues_unspecSkips(order, oldValues, newValues, slot) ==
    IF order = <<>> THEN errIndexSlotsNotUpdated
    ELSE LET k == Head(order)
             next == rangeOldValues_unspecSkips(Tail(order), oldValues, newValues, slot)
         IN  IF k = "type" \/ k = "id" THEN next
             ELSE IF "type" \notin DOMAIN oldValues \/ oldValues["type"] = Null
                  THEN next
             ELSE IF oldValues["type"].t # "str" THEN next
             ELSE IF slot[k].err = "unspec" THEN next
             ELSE IF slot[k].err # "none" THEN "slot index error"
             ELSE IF k \notin DOMAIN newValues THEN next
             ELSE IF slot[k].idx \in {2, 3}
                  THEN LET c == GoEq(oldValues[k], newValues[k])
                       IN  IF c = "panic" THEN "panic"
                           ELSE IF c = "ne" THEN "ok"
                           ELSE next
             ELSE next

RECURSIVE rangeOldValues(_, _, _, _)
rangeOldValues(order, oldValues, newValues, slot) ==
    IF order = <<>> THEN errIndexSlotsNotUpdated
    ELSE LET k == Head(order)
             next == rangeOldValues(Tail(order), oldValues, newValues, slot)
         IN  IF k = "type" \/ k = "id" THEN next
             ELSE IF "type" \notin DOMAIN oldValues \/ oldValues["type"] = Null
                  THEN next
             ELSE IF oldValues["type"].t # "str" THEN next
             ELSE IF slot[k].err = "unspec" THEN "ok"
             ELSE IF slot[k].err # "none" THEN "slot index error"
             ELSE IF k \notin DOMAIN newValues THEN next
             ELSE IF slot[k].idx \in {2, 3}
                  THEN LET c == GoEq(oldValues[k], newValues[k])
                       IN  IF c = "panic" THEN "panic"
                           ELSE IF c = "ne" THEN "ok"
                           ELSE next
             ELSE next

\* isUpdatedIndexSlots with the Value position falling through to the loop
isUpdatedIndexSlots_valueScans(credential, oldValues, newValues, claim, order) ==
    IF credential = NoCred THEN "nil credential in isUpdatedIndexSlots"
    ELSE IF claim.parse # "ok" THEN "invalid w3c credential"
    ELSE IF claim.pos = "err" THEN "failed to get merklized position"
    ELSE IF claim.pos = "Index" THEN "ok"
    ELSE rangeOldValues(order, oldValues, newValues, claim.slot)

isUpdatedIndexSlots(credential, oldValues, newValues, claim, order) ==
    IF credential = NoCred THEN "nil credential in isUpdatedIndexSlots"
    ELSE IF claim.parse # "ok" THEN "invalid w3c credential"
    ELSE IF claim.pos = "err" THEN "failed to get merklized position"
    ELSE IF claim.pos = "Index" THEN "ok"
    ELSE IF claim.pos = "Value" THEN errIndexSlotsNotUpdated
    ELSE rangeOldValues(order, oldValues, newValues, claim.slot)

\* the orders in which range may visit the keys of a map
Orders(m) ==
    {o \in [1..Cardinality(DOMAIN m) -> DOMAIN m] :
        \A i, j \in 1..Cardinality(DOMAIN m) : i # j => o[i] # o[j]}

\* the merge that keeps the value of a key the subject already holds
mergeFields_keepOld(subject, fields) ==
    [k \in DOMAIN subject \cup DOMAIN fields |->
        IF k \in DOMAIN subject THEN subject[k] ELSE fields[k]]

\* Process, lines 162-164: updatedFields laid over the subject
mergeFields(subject, fields) ==
    [k \in DOMAIN subject \cup DOMAIN fields |->
        IF k \in DOMAIN fields THEN fields[k] ELSE subject[k]]

\* extractRevocationNonce answering 0 for a status without the key
extractRevocationNonce_default(credential) ==
    IF credential = NoCred
         THEN [err |-> "nil credential in extractRevocationNonce", n |-> 0]
    ELSE IF credential.status.t # "obj"
         THEN [err |-> "invalid credential status", n |-> 0]
    ELSE IF "revocationNonce" \notin DOMAIN credential.status.v
         THEN [err |-> "ok", n |-> 0]
    ELSE IF credential.status.v["revocationNonce"].t # "num"
         THEN [err |-> "revocationNonce is not a number", n |-> 0]
    ELSE [err |-> "ok", n |-> credential.status.v["revocationNonce"].v[1]]

\* extractRevocationNonce: [err, n].  uint64(n) drops the fraction of the
\* float64, which is the first component of v.
extractRevocationNonce(credential) ==
    IF credential = NoCred
         THEN [err |-> "nil credential in extractRevocationNonce", n |-> 0]
    ELSE IF credential.status.t # "obj"
         THEN [err |-> "invalid credential status", n |-> 0]
    ELSE IF "revocationNonce" \notin DOMAIN credential.status.v
         THEN [err |-> "revocationNonce not found in credential status", n |-> 0]
    ELSE IF credential.status.v["revocationNonce"].t # "num"
         THEN [err |-> "revocationNonce is not a number", n |-> 0]
    ELSE [err |-> "ok", n |-> credential.status.v["revocationNonce"].v[1]]

(***************************************************************************)
(* loadContexts.  The document loader is a function from the URIs to what  *)
(* LoadDocument answers for them:                                          *)
(*   "err"        an error                                                 *)
(*   "nil"        a nil document                                           *)
(*   "notmap"     a document that is not a map                             *)
(*   "nocontext"  a map without the key "@context"                         *)
(*   "array0"     a map whose "@context" is the empty array                *)
(*   "array2"     a map whose "@context" is an array of two entries        *)
(*   "scalar"     a map whose "@context" is one value, not an array        *)
(* The entries of the document of the URI u are <<u, 1>> and <<u, 2>> of   *)
(* its array and <<u, 0>> for its one value.  A slice is [nil, v]: whether *)
(* it is the nil slice, and its elements.                                  *)
(***************************************************************************)
LoaderOutcomes == {"err", "nil", "notmap", "nocontext", "array0", "array2", "scalar"}
URIs == {"u1", "u2"}

NilSlice == [nil |-> TRUE, v |-> <<>>]

\* append(res, items...): appending nothing leaves the nil slice nil
GoAppend(res, items) ==
    IF items = <<>> THEN res ELSE [nil |-> FALSE, v |-> res.v \o items]

\* json.Marshal of a slice: null for the nil slice, an array otherwise
Marshal(res) == IF res.nil THEN Null ELSE [t |-> "arr", v |-> res.v]

\* what loadContexts appends for a document that holds "@context"
ldContext(uri, outcome) ==
    IF outcome = "array2" THEN << <<uri, 1>>, <<uri, 2>> >>
    ELSE IF outcome = "array0" THEN <<>>
    ELSE << <<uri, 0>> >>

\* the loop of loadContexts from the i-th URI on
RECURSIVE rangeContexts(_, _, _, _)
rangeContexts(contexts, loader, i, res) ==
    IF i > Len(contexts) THEN res
    ELSE IF contexts[i] = "" THEN rangeContexts(contexts, loader, i + 1, res)
    ELSE IF loader[contexts[i]] \in {"err", "nil", "notmap", "nocontext"}
         THEN rangeContexts(contexts, loader, i + 1, res)
    ELSE rangeContexts(contexts, loader, i + 1,
                       GoAppend(res, ldContext(contexts[i], loader[contexts[i]])))

\* loadContexts: [err, context], context the JSON value under "@context"
loadContexts(contexts, loader) ==
    IF Len(contexts) = 0
    THEN [err |-> "ok", context |-> [t |-> "arr", v |-> <<>>]]
    ELSE [err |-> "ok", context |-> Marshal(rangeContexts(contexts, loader, 1, NilSlice))]

\* the calls of LoadDocument that loadContexts makes, in order: [uri, ok]
RECURSIVE LoadCalls(_, _, _)
LoadCalls(contexts, loader, i) ==
    IF i > Len(contexts) THEN <<>>
    ELSE IF contexts[i] = "" THEN LoadCalls(contexts, loader, i + 1)
    ELSE <<[uri |-> contexts[i], ok |-> loader[contexts[i]] # "err"]>>
         \o LoadCalls(contexts, loader, i + 1)

\* getIssuerURL taking the wildcard entry before the entry of the issuer
getIssuerURL_wildcardFirst(supportedIssuers, issuerDID) ==
    IF "*" \in DOMAIN supportedIssuers
         THEN [err |-> "ok", url |-> supportedIssuers["*"]]
    ELSE IF issuerDID \in DOMAIN supportedIssuers
         THEN [err |-> "ok", url |-> supportedIssuers[issuerDID]]
    ELSE [err |-> ErrIssuerNotSupported, url |-> ""]

\* IssuerService.getIssuerURL: [err, url]
getIssuerURL(supportedIssuers, issuerDID) ==
    IF issuerDID \in DOMAIN supportedIssuers
         THEN [err |-> "ok", url |-> supportedIssuers[issuerDID]]
    ELSE IF "*" \in DOMAIN supportedIssuers
         THEN [err |-> "ok", url |-> supportedIssuers["*"]]
    ELSE [err |-> ErrIssuerNotSupported, url |-> ""]

\* strings.SplitN(namepass, ":", 2): the parts around the first colon
RECURSIVE firstColon(_, _)
firstColon(s, i) ==
    IF i > Len(s) THEN 0 ELSE IF s[i] = ":" THEN i ELSE firstColon(s, i + 1)
SplitN2(s) ==
    LET i == firstColon(s, 1)
    IN  IF i = 0 THEN <<s>> ELSE <<SubSeq(s, 1, i - 1), SubSeq(s, i + 1, Len(s))>>

\* IssuerService.setBasicAuth: [err, auth], auth the pair set on the request
\* (<<>> when none is set).  issuerBasicAuth is NoAuth (nil) or a map.
NoAuth == [t |-> "nil", v |-> <<>>]
setBasicAuth(issuerBasicAuth, issuerDID) ==
    IF issuerBasicAuth = NoAuth THEN [err |-> "ok", auth |-> <<>>]
    ELSE LET m == issuerBasicAuth.v
         IN  IF issuerDID \notin DOMAIN m /\ "*" \notin DOMAIN m
                  THEN [err |-> "ok", auth |-> <<>>]
             ELSE LET namepass == IF issuerDID \in DOMAIN m
                                  THEN m[issuerDID] ELSE m["*"]
                      parts == SplitN2(namepass)
                  IN  IF Len(parts) # 2
                           THEN [err |-> "invalid basic auth", auth |-> <<>>]
                      ELSE [err |-> "ok", auth |-> parts]

(***************************************************************************)
(* The inputs of one invocation Process(ctx, issuer, owner, id).           *)
(***************************************************************************)
Issuer == "did:iss"
Owners == {<<1>>, <<2>>}

\* the service: whether its collaborators are nil, and the issuer maps
Configs ==
    {[issuerServiceNil |-> TRUE, documentLoaderNil |-> FALSE,
      supportedIssuers |-> EmptyMap, issuerBasicAuth |-> NoAuth],
     [issuerServiceNil |-> FALSE, documentLoaderNil |-> TRUE,
      supportedIssuers |-> EmptyMap, issuerBasicAuth |-> NoAuth],
     [issuerServiceNil |-> FALSE, documentLoaderNil |-> FALSE,
      supportedIssuers |-> EmptyMap, issuerBasicAuth |-> NoAuth],
     [issuerServiceNil |-> FALSE, documentLoaderNil |-> FALSE,
      supportedIssuers |-> [k \in {"*"} |-> "http://any"],
      issuerBasicAuth |-> [t |-> "map", v |-> [k \in {Issuer} |-> <<"u", "p">>]]],
     [issuerServiceNil |-> FALSE, documentLoaderNil |-> FALSE,
      supportedIssuers |-> [k \in {Issuer, "*"} |->
                              IF k = Issuer THEN "http://iss" ELSE "http://any"],
      issuerBasicAuth |-> [t |-> "map", v |-> [k \in {"*"} |-> <<"u", ":", "p">>]]]}

\* the credentials the issuing authority may answer the first fetch with
SubjectIds == {Absent, Null, Num(1), Str(<<0>>), Str(<<1>>), Str(<<0, 1>>), Str(<<2>>)}
SubjectTypes == {Absent, Null, Num(1), Str(<<>>), Str(<<1>>)}
OldFields == {Absent, Num(1), Map(1)}
Subjects ==
    {Strip([k \in {"id", "type", "f"} |->
              IF k = "id" THEN i ELSE IF k = "type" THEN ty ELSE f]) :
        i \in SubjectIds, ty \in SubjectTypes, f \in OldFields}
Statuses ==
    {Null,
     [t |-> "obj", v |-> EmptyMap],
     [t |-> "obj", v |-> [k \in {"revocationNonce"} |-> Str(<<1>>)]],
     [t |-> "obj", v |-> [k \in {"revocationNonce"} |-> Num(5)]],
     [t |-> "obj", v |-> [k \in {"revocationNonce"} |-> NumHalf(6)]]}
Expirations == {NoExp, Second - 1, Second, Second + 1}
\* the context URIs of a credential in an invocation of Process: two (lists
\* of every length up to MaxCtx, the empty one included, are handed to
\* loadContexts on its own)
Contexts == {<<"u1", "u2">>}
Credentials ==
    [issuer : {"", Issuer}, id : {"", "c1"}, typeNil : BOOLEAN,
     exp : Expirations, subject : {NoSubj} \cup Subjects,
     status : Statuses, schemaID : {"", "schema"}, context : Contexts]

\* what a provider may return: nil (NoSubj) or a map of fields
ProviderResults ==
    {NoSubj} \cup
    {Strip([k \in {"id", "type", "f", "h"} |->
              IF k = "id" THEN i ELSE IF k = "type" THEN ty
              ELSE IF k = "f" THEN f ELSE h]) :
        i \in {Absent, Str(<<2>>)}, ty \in {Absent, Str(<<2>>)},
        f \in {Absent, Map(1)} \cup {Num(n) : n \in 1..MaxVal},
        h \in {Absent, Num(1)}}

\* Settings.TimeExpiration of a provider, in clock ticks
Durations == {0, 1, Second}
FiveMinutes == 5 * 60 * Second

\* the document loaders of an invocation of Process: the first URI fails or
\* resolves, the second resolves
ProcessLoaders ==
    {l \in [URIs -> {"err", "scalar"}] : l["u2"] = "scalar"}

\* what the claim parser may answer in an invocation of Process
SlotOutcomes ==
    {[err |-> "none", idx |-> 0], [err |-> "none", idx |-> 2],
     [err |-> "unspec", idx |-> 0], [err |-> "other", idx |-> 0]}
Claims ==
    {[parse |-> "err", pos |-> "err", slot |-> [k \in {"f"} |-> [err |-> "none", idx |-> 0]]],
     [parse |-> "ok", pos |-> "err", slot |-> [k \in {"f"} |-> [err |-> "none", idx |-> 0]]],
     [parse |-> "ok", pos |-> "Index", slot |-> [k \in {"f"} |-> [err |-> "none", idx |-> 0]]],
     [parse |-> "ok", pos |-> "Value", slot |-> [k \in {"f"} |-> [err |-> "none", idx |-> 0]]]}
    \cup {[parse |-> "ok", pos |-> "None", slot |-> [k \in {"f"} |-> o]] : o \in SlotOutcomes}

(***************************************************************************)
(* IssuerService.GetClaimByID: the outcomes of one call, as records        *)
(* [sent, cred, err]: sent tells whether client.Do was called; stored is   *)
(* the credential the authority holds under the id asked for (NoCred when  *)
(* it holds none).                                                         *)
(***************************************************************************)
GetClaimByID(c, issuerDID, stored) ==
    IF getIssuerURL(c.supportedIssuers, issuerDID).err # "ok"
    THEN {[sent |-> FALSE, cred |-> NoCred,
           err |-> Err(ErrIssuerNotSupported, "id")]}
    ELSE IF setBasicAuth(c.issuerBasicAuth, issuerDID).err # "ok"
    THEN {[sent |-> FALSE, cred |-> NoCred, err |-> Err("", "invalid basic auth")]}
    ELSE {[sent |-> TRUE, cred |-> NoCred,
           err |-> Err(ErrGetClaim, m)] :
              m \in {"failed http GET request", "invalid status code",
                     "failed to decode response"}}
         \cup (IF stored = NoCred THEN {}
               ELSE {[sent |-> TRUE, cred |-> stored, err |-> NoErr]})

(***************************************************************************)
(* IssuerService.CreateCredential: the outcomes of one call, as records    *)
(* [sent, created, id, err]: created tells whether the authority issued a  *)
(* credential (under the id fresh).                                        *)
(***************************************************************************)
CreateCredential(c, issuerDID, fresh) ==
    IF getIssuerURL(c.supportedIssuers, issuerDID).err # "ok"
    THEN {[sent |-> FALSE, created |-> FALSE, id |-> "",
           err |-> Err(ErrIssuerNotSupported, "id")]}
    ELSE IF setBasicAuth(c.issuerBasicAuth, issuerDID).err # "ok"
    THEN {[sent |-> FALSE, created |-> FALSE, id |-> "",
           err |-> Err("", "invalid basic auth")]}
    ELSE {[sent |-> TRUE, created |-> b, id |-> "",
           err |-> Err(ErrCreateClaim, "failed http POST request")] : b \in BOOLEAN}
         \cup {[sent |-> TRUE, created |-> FALSE, id |-> "",
                err |-> Err(ErrCreateClaim, "invalid status code")],
               [sent |-> TRUE, created |-> TRUE, id |-> "",
                err |-> Err(ErrCreateClaim, "failed to decode response")],
               [sent |-> TRUE, created |-> TRUE, id |-> fresh, err |-> NoErr]}

\* the credential the authority issues for a request, under the id fresh
Issued(request, fresh) ==
    [issuer |-> Issuer, id |-> fresh, typeNil |-> FALSE,
     exp |-> request.expiration * Second,
     subject |-> request.credentialSubject,
     status |-> [t |-> "obj", v |-> [k \in {"revocationNonce"} |-> Num(request.revNonce)]],
     schemaID |-> request.credentialSchema, context |-> <<"u1", "u2">>]

NoRequest == [t |-> "norequest", v |-> <<>>]
NoClaim == [parse |-> "none", pos |-> "none", slot |-> EmptyMap]
NoReturn == [cred |-> NoCred, err |-> Err("", "running")]

(***************************************************************************)
(* State.                                                                  *)
(*   pc             the stage Process has reached                          *)
(*   cfg, owner     the service and the owner argument                     *)
(*   now            the clock, in ticks                                    *)
(*   cred           the local variable credential                          *)
(*   fetched        the credential as the first fetch returned it          *)
(*   timeExp        flexibleHTTP.Settings.TimeExpiration                   *)
(*   updatedFields  the local variable updatedFields                       *)
(*   claim          what the claim parser answered                         *)
(*   verdict        what isUpdatedIndexSlots returned                      *)
(*   credReq        the credentialRequest handed to CreateCredential       *)
(*   refreshedID    the id CreateCredential returned                       *)
(*   ret            what Process returned: [cred, err]                     *)
(*   stages         the stages passed so far, in order                     *)
(*   calls          the calls made to the outside, in order: [op, ok]      *)
(*   authority      the ids of the credentials the authority holds         *)
(*   fnIn, fnOut    arguments and result of a function applied on its own  *)
(*   fnRes          what else the application showed: the order of a range *)
(*                  loop, or a result that is a record                     *)
(*   loads          the calls of LoadDocument made by loadContexts, in     *)
(*                  order: [uri, ok]                                       *)
(*   provided       what Provide returned, before nil becomes the empty map*)
(***************************************************************************)
VARIABLES pc, cfg, owner, now, cred, fetched, timeExp, updatedFields, claim,
          verdict, credReq, refreshedID, ret, stages, calls, authority,
          fnIn, fnOut, fnRes, loads, provided

vars == <<pc, cfg, owner, now, cred, fetched, timeExp, updatedFields, claim,
          verdict, credReq, refreshedID, ret, stages, calls, authority,
          fnIn, fnOut, fnRes, loads, provided>>

NoCall == [op |-> "none"]
NoResult == [err |-> "none"]
NotAsked == [t |-> "notasked", v |-> <<>>]

Idle ==
    /\ now = Second
    /\ cred = NoCred
    /\ fetched = NoCred
    /\ timeExp = 0
    /\ updatedFields = NoSubj
    /\ claim = NoClaim
    /\ verdict = ""
    /\ credReq = NoRequest
    /\ refreshedID = ""
    /\ ret = NoReturn
    /\ stages = <<>>
    /\ calls = <<>>
    /\ authority = {"c1"}
    /\ loads = <<>>
    /\ provided = NotAsked

Init ==
    /\ pc = "start"
    /\ cfg \in Configs
    /\ owner \in Owners
    /\ Idle
    /\ fnIn = NoCall
    /\ fnOut = ""
    /\ fnRes = NoResult

\* return nil, err
Fail(e) ==
    /\ pc' = "done"
    /\ ret' = [cred |-> NoCred, err |-> e]

\* errors.Wrapf(ErrCredentialNotUpdatable, ...)
NotUpdatable(msg) == Err(ErrCredentialNotUpdatable, msg)

\* the stage st is passed and Process goes on at p
Pass(st, p) ==
    /\ pc' = p
    /\ stages' = Append(stages, st)
    /\ ret' = ret

\* lines 63-79: the nil checks and the first GetClaimByID
Fetch ==
    /\ pc = "start"
    /\ UNCHANGED <<cfg, owner, now, timeExp, updatedFields, claim, verdict,
                   credReq, refreshedID, authority, fnIn, fnOut, fnRes, loads, provided>>
    /\ IF cfg.issuerServiceNil
       THEN /\ Fail(Err("", "issuerService is nil"))
            /\ UNCHANGED <<cred, fetched, stages, calls>>
       ELSE IF cfg.documentLoaderNil
       THEN /\ Fail(Err("", "documentLoader is nil"))
            /\ UNCHANGED <<cred, fetched, stages, calls>>
       ELSE \E stored \in Credentials :
            \E r \in GetClaimByID(cfg, Issuer, stored) :
               /\ calls' = IF r.sent
                           THEN Append(calls, [op |-> "GET", ok |-> r.err = NoErr])
                           ELSE calls
               /\ IF r.err # NoErr
                  THEN /\ Fail(r.err)
                       /\ UNCHANGED <<cred, fetched, stages>>
                  ELSE /\ cred' = r.cred
                       /\ fetched' = r.cred
                       /\ Pass("fetch", "fetched")

\* lines 87-105
Validate ==
    /\ pc = "fetched"
    /\ UNCHANGED <<cfg, owner, now, cred, fetched, timeExp, updatedFields, claim,
                   verdict, credReq, refreshedID, calls, authority, fnIn, fnOut, fnRes, loads, provided>>
    /\ IF structuralCheck(cred) # "ok"
       THEN Fail(Err("", structuralCheck(cred))) /\ UNCHANGED stages
       ELSE Pass("structure", "valid")

\* lines 107-109
CheckUpdatable ==
    /\ pc = "valid"
    /\ UNCHANGED <<cfg, owner, now, cred, fetched, timeExp, updatedFields, claim,
                   verdict, credReq, refreshedID, calls, authority, fnIn, fnOut, fnRes, loads, provided>>
    /\ IF isUpdatable(cred, now) # "ok"
       THEN Fail(NotUpdatable(isUpdatable(cred, now))) /\ UNCHANGED stages
       ELSE Pass("isUpdatable", "eligible")

\* lines 111-113
CheckOwner ==
    /\ pc = "eligible"
    /\ UNCHANGED <<cfg, owner, now, cred, fetched, timeExp, updatedFields, claim,
                   verdict, credReq, refreshedID, calls, authority, fnIn, fnOut, fnRes, loads, provided>>
    /\ IF checkOwnerShip(cred, owner) # "ok"
       THEN Fail(NotUpdatable(checkOwnerShip(cred, owner))) /\ UNCHANGED stages
       ELSE Pass("checkOwnerShip", "owned")

\* lines 117-129
SubjectType ==
    /\ pc = "owned"
    /\ UNCHANGED <<cfg, owner, now, cred, fetched, timeExp, updatedFields, claim,
                   verdict, credReq, refreshedID, calls, authority, fnIn, fnOut, fnRes, loads, provided>>
    /\ IF subjectTypeCheck(cred) # "ok"
       THEN Fail(Err("", subjectTypeCheck(cred))) /\ UNCHANGED stages
       ELSE Pass("subjectType", "typed")

\* the local variable subjectType, set at line 126
subjectType == fetched.subject["type"].v

\* lines 131-141: TypeIDFromContext and ProduceFlexibleHTTP
ResolveProvider ==
    /\ pc = "typed"
    /\ UNCHANGED <<cfg, owner, now, cred, fetched, updatedFields, claim,
                   verdict, credReq, refreshedID, calls, authority, fnIn, fnOut, fnRes, loads, provided>>
    /\ \/ Fail(Err("", "type id from context")) /\ UNCHANGED <<stages, timeExp>>
       \/ Fail(NotUpdatable("no provider")) /\ UNCHANGED <<stages, timeExp>>
       \/ \E d \in Durations :
             /\ timeExp' = d
             /\ Pass("provider", "resolved")

\* Provide that leaves a zero duration as it is
Provide_noDefault ==
    /\ pc = "resolved"
    /\ UNCHANGED <<cfg, owner, now, cred, fetched, claim, verdict, credReq,
                   refreshedID, authority, fnIn, fnOut, fnRes, loads, timeExp>>
    /\ \/ /\ Fail(Err("", "provider failed"))
          /\ calls' = Append(calls, [op |-> "Provide", ok |-> FALSE])
          /\ UNCHANGED <<stages, updatedFields, provided>>
       \/ \E result \in ProviderResults :
             /\ calls' = Append(calls, [op |-> "Provide", ok |-> TRUE])
             /\ provided' = result
             /\ updatedFields' = IF result = NoSubj THEN EmptyMap ELSE result
             /\ Pass("provide", "provided")

\* Provide whose failure is logged and taken for an empty result
Provide_goesOn ==
    /\ pc = "resolved"
    /\ UNCHANGED <<cfg, owner, now, cred, fetched, claim, verdict, credReq,
                   refreshedID, authority, fnIn, fnOut, fnRes, loads>>
    /\ \E result \in ProviderResults : \E ok \in BOOLEAN :
          /\ calls' = Append(calls, [op |-> "Provide", ok |-> ok])
          /\ provided' = IF ok THEN result ELSE NoSubj
          /\ updatedFields' = IF result = NoSubj \/ ~ok THEN EmptyMap ELSE result
          /\ timeExp' = IF timeExp = 0 THEN FiveMinutes ELSE timeExp
          /\ Pass("provide", "provided")

\* lines 143-156: Provide, the nil result and the default duration
Provide ==
    /\ pc = "resolved"
    /\ UNCHANGED <<cfg, owner, now, cred, fetched, claim, verdict, credReq,
                   refreshedID, authority, fnIn, fnOut, fnRes, loads>>
    /\ \/ /\ Fail(Err("", "provider failed"))
          /\ calls' = Append(calls, [op |-> "Provide", ok |-> FALSE])
          /\ UNCHANGED <<stages, timeExp, updatedFields, provided>>
       \/ \E result \in ProviderResults :
             /\ calls' = Append(calls, [op |-> "Provide", ok |-> TRUE])
             /\ provided' = result
             /\ updatedFields' = IF result = NoSubj THEN EmptyMap ELSE result
             /\ timeExp' = IF timeExp = 0 THEN FiveMinutes ELSE timeExp
             /\ Pass("provide", "provided")

\* lines 158-160, and the recover of lines 57-61 when the comparison panics
IndexImpact ==
    /\ pc = "provided"
    /\ UNCHANGED <<cfg, owner, now, cred, fetched, timeExp, updatedFields,
                   credReq, refreshedID, calls, authority, fnIn, fnOut, fnRes,
                   provided>>
    /\ \E cl \in Claims : \E order \in Orders(cred.subject) :
       \E lc \in IF cl.parse = "ok" /\ cl.pos = "None"
                  THEN {LoadCalls(cred.context, l, 1) : l \in ProcessLoaders}
                  ELSE {<<>>} :
          LET v == isUpdatedIndexSlots(cred, cred.subject, updatedFields, cl, order)
          IN  /\ claim' = cl
              /\ verdict' = v
              /\ loads' = lc
              /\ IF v = "ok" THEN Pass("indexSlots", "impact")
                 ELSE IF v = "panic"
                 THEN /\ pc' = "done"
                      /\ ret' = [cred |-> NoCred, err |-> NoErr]
                      /\ UNCHANGED stages
                 ELSE Fail(NotUpdatable(v)) /\ UNCHANGED stages

\* lines 162-164
Merge ==
    /\ pc = "impact"
    /\ UNCHANGED <<cfg, owner, now, fetched, timeExp, updatedFields, claim,
                   verdict, credReq, refreshedID, calls, authority, fnIn, fnOut, fnRes, loads, provided>>
    /\ cred' = [cred EXCEPT !.subject = mergeFields(cred.subject, updatedFields)]
    /\ Pass("merge", "merged")

\* ExtractNonce with the error dropped (revNonce, _ := ...)
ExtractNonce_ignored ==
    /\ pc = "merged"
    /\ UNCHANGED <<cfg, owner, now, cred, fetched, timeExp, updatedFields, claim,
                   verdict, credReq, refreshedID, calls, authority, fnIn, fnOut, fnRes, loads, provided>>
    /\ Pass("revocationNonce", "nonce")

\* lines 166-169
ExtractNonce ==
    /\ pc = "merged"
    /\ UNCHANGED <<cfg, owner, now, cred, fetched, timeExp, updatedFields, claim,
                   verdict, credReq, refreshedID, calls, authority, fnIn, fnOut, fnRes, loads, provided>>
    /\ IF extractRevocationNonce(cred).err # "ok"
       THEN Fail(Err("", extractRevocationNonce(cred).err)) /\ UNCHANGED stages
       ELSE Pass("revocationNonce", "nonce")

\* CheckSchema without the test of the schema id
CheckSchema_unchecked ==
    /\ pc = "nonce"
    /\ UNCHANGED <<cfg, owner, now, cred, fetched, timeExp, updatedFields, claim,
                   verdict, credReq, refreshedID, calls, authority, fnIn, fnOut, fnRes, loads, provided>>
    /\ Pass("schemaID", "schema")

\* lines 171-173
CheckSchema ==
    /\ pc = "nonce"
    /\ UNCHANGED <<cfg, owner, now, cred, fetched, timeExp, updatedFields, claim,
                   verdict, credReq, refreshedID, calls, authority, fnIn, fnOut, fnRes, loads, provided>>
    /\ IF cred.schemaID = ""
       THEN Fail(Err("", "credential schema ID is empty")) /\ UNCHANGED stages
       ELSE Pass("schemaID", "schema")

\* lines 183-191: the request, built when the clock shows t
credentialRequest(credential, t) ==
    [credentialSchema |-> credential.schemaID,
     type |-> subjectType,
     credentialSubject |-> credential.subject,
     expiration |-> (t + timeExp) \div Second,
     revNonce |-> extractRevocationNonce(credential).n]

\* lines 183-196: the request is built and handed to CreateCredential
Create ==
    /\ pc = "schema"
    /\ UNCHANGED <<cfg, owner, cred, fetched, timeExp, updatedFields, claim,
                   verdict, fnIn, fnOut, fnRes, loads, provided>>
    /\ \E t \in {now, now + 1} : \E r \in CreateCredential(cfg, Issuer, "c2") :
          /\ now' = t
          /\ credReq' = credentialRequest(cred, t)
          /\ calls' = IF r.sent
                      THEN Append(calls, [op |-> "POST", ok |-> r.err = NoErr])
                      ELSE calls
          /\ authority' = IF r.created THEN authority \cup {"c2"} ELSE authority
          /\ IF r.err # NoErr
             THEN Fail(r.err) /\ UNCHANGED <<stages, refreshedID>>
             ELSE /\ refreshedID' = r.id
                  /\ Pass("create", "created")

\* Refetch that returns the merged credential held in memory
Refetch_returnsLocal ==
    /\ pc = "created"
    /\ UNCHANGED <<cfg, owner, now, cred, fetched, timeExp, updatedFields, claim,
                   verdict, credReq, refreshedID, authority, fnIn, fnOut, fnRes, loads, provided>>
    /\ \E r \in GetClaimByID(cfg, Issuer, Issued(credReq, refreshedID)) :
          /\ calls' = IF r.sent
                      THEN Append(calls, [op |-> "GET", ok |-> r.err = NoErr])
                      ELSE calls
          /\ pc' = "done"
          /\ ret' = [cred |-> IF r.err = NoErr THEN cred ELSE NoCred, err |-> r.err]
          /\ stages' = IF r.err = NoErr THEN Append(stages, "refetch") ELSE stages

\* line 198: the second GetClaimByID, whose result Process returns
Refetch ==
    /\ pc = "created"
    /\ UNCHANGED <<cfg, owner, now, cred, fetched, timeExp, updatedFields, claim,
                   verdict, credReq, refreshedID, authority, fnIn, fnOut, fnRes, loads, provided>>
    /\ \E r \in GetClaimByID(cfg, Issuer, Issued(credReq, refreshedID)) :
          /\ calls' = IF r.sent
                      THEN Append(calls, [op |-> "GET", ok |-> r.err = NoErr])
                      ELSE calls
          /\ pc' = "done"
          /\ ret' = [cred |-> r.cred, err |-> r.err]
          /\ stages' = IF r.err = NoErr THEN Append(stages, "refetch") ELSE stages

Next ==
    \/ Fetch
    \/ Validate
    \/ CheckUpdatable
    \/ CheckOwner
    \/ SubjectType
    \/ ResolveProvider
    \/ Provide
    \/ IndexImpact
    \/ Merge
    \/ ExtractNonce
    \/ CheckSchema
    \/ Create
    \/ Refetch

Spec == Init /\ [][Next]_vars

(***************************************************************************)
(* isUpdatedIndexSlots on its own: the arguments Process can hand it (a    *)
(* subject whose id is a string and whose type is a non-empty string, the  *)
(* provider's fields with nil already replaced by the empty map), every    *)
(* answer of the claim parser and every order of the range loop.           *)
(***************************************************************************)
FnOldValues ==
    {Strip([k \in {"id", "type", "f", "g"} |->
              IF k = "id" THEN Str(<<1>>) ELSE IF k = "type" THEN Str(<<1>>)
              ELSE IF k = "f" THEN f ELSE g]) :
        f \in {Absent, Num(1), Map(1)}, g \in {Absent, Num(1)}}
FnNewValues ==
    {Strip([k \in {"f", "g", "h"} |->
              IF k = "f" THEN f ELSE IF k = "g" THEN g ELSE h]) :
        f \in {Absent, Map(1)} \cup {Num(n) : n \in 1..MaxVal},
        g \in {Absent} \cup {Num(n) : n \in 1..MaxVal},
        h \in {Absent, Num(1)}}
FnSlotOutcomes ==
    {[err |-> "none", idx |-> i] : i \in 0..3}
    \cup {[err |-> "unspec", idx |-> 0], [err |-> "other", idx |-> 0]}
FnClaims ==
    {[parse |-> "err", pos |-> "err", slot |-> sl] : sl \in [{"f", "g"} -> {[err |-> "none", idx |-> 0]}]}
    \cup {[parse |-> "ok", pos |-> p, slot |-> sl] :
            p \in {"err", "Index", "Value"},
            sl \in [{"f", "g"} -> {[err |-> "none", idx |-> 2], [err |-> "other", idx |-> 0]}]}
    \cup {[parse |-> "ok", pos |-> "None", slot |-> sl] : sl \in [{"f", "g"} -> FnSlotOutcomes]}
FnCredential(subject) ==
    [issuer |-> Issuer, id |-> "c1", typeNil |-> FALSE, exp |-> Second,
     subject |-> subject, status |-> Null, schemaID |-> "schema",
     context |-> <<>>]

\* the lists of context URIs handed to loadContexts, the empty string among
\* the URIs, and the document loaders
FnContexts == UNION {[1..n -> {""} \cup URIs] : n \in 0..MaxCtx}
Loaders == [URIs -> LoaderOutcomes]

\* the issuer maps of a service handed to the lookups on their own: for the
\* issuer, the wildcard and another issuer an entry or none; a basic-auth
\* entry is "name:pass" or lacks the colon
FnSupportedIssuers ==
    {[k \in ks |-> IF k = Issuer THEN "http://iss"
                   ELSE IF k = "*" THEN "http://any" ELSE "http://other"] :
        ks \in SUBSET {Issuer, "*", "did:other"}}
FnBasicAuth ==
    {NoAuth} \cup
    {[t |-> "map",
      v |-> [k \in ks |-> IF k = Issuer
                               THEN (IF k \in colon THEN <<"u", ":", "p">> ELSE <<"u", "p">>)
                          ELSE IF k = "*"
                               THEN (IF k \in colon THEN <<"w", ":", "q">> ELSE <<"w", "q">>)
                          ELSE <<"o", ":", "r">>]] :
        ks \in SUBSET {Issuer, "*", "did:other"}, colon \in SUBSET {Issuer, "*"}}

InitFn ==
    /\ pc = "fn"
    /\ cfg \in {c \in Configs : c.supportedIssuers = EmptyMap /\ ~c.issuerServiceNil
                                /\ ~c.documentLoaderNil}
    /\ owner = <<1>>
    /\ Idle
    /\ fnIn \in [op : {"isUpdatedIndexSlots"}, oldValues : FnOldValues,
                 newValues : FnNewValues, claim : FnClaims]
            \cup [op : {"loadContexts"}, contexts : FnContexts, loader : Loaders]
            \cup [op : {"issuer"}, supportedIssuers : FnSupportedIssuers,
                  issuerBasicAuth : FnBasicAuth, issuerDID : {Issuer}]
    /\ fnOut = ""
    /\ fnRes = NoResult

ApplyIsUpdatedIndexSlots ==
    /\ pc = "fn"
    /\ fnIn.op = "isUpdatedIndexSlots"
    /\ fnOut = ""
    /\ \E order \in Orders(fnIn.oldValues) :
          /\ fnOut' = isUpdatedIndexSlots(FnCredential(fnIn.oldValues), fnIn.oldValues,
                                          fnIn.newValues, fnIn.claim, order)
          /\ fnRes' = [err |-> "ok", order |-> order]
    /\ UNCHANGED <<pc, cfg, owner, now, cred, fetched, timeExp, updatedFields,
                   claim, verdict, credReq, refreshedID, ret, stages, calls,
                   authority, fnIn, loads, provided>>

\* loadContexts applied to a list of URIs
ApplyLoadContexts ==
    /\ pc = "fn"
    /\ fnIn.op = "loadContexts"
    /\ fnRes = NoResult
    /\ fnRes' = loadContexts(fnIn.contexts, fnIn.loader)
    /\ loads' = LoadCalls(fnIn.contexts, fnIn.loader, 1)
    /\ UNCHANGED <<pc, cfg, owner, now, cred, fetched, timeExp, updatedFields,
                   claim, verdict, credReq, refreshedID, ret, stages, calls,
                   authority, fnIn, fnOut, provided>>

\* getIssuerURL, setBasicAuth, GetClaimByID and CreateCredential applied to
\* the issuer maps of a service
ApplyIssuerLookup ==
    /\ pc = "fn"
    /\ fnIn.op = "issuer"
    /\ fnRes = NoResult
    /\ LET c == [issuerServiceNil |-> FALSE, documentLoaderNil |-> FALSE,
                 supportedIssuers |-> fnIn.supportedIssuers,
                 issuerBasicAuth |-> fnIn.issuerBasicAuth]
       IN  fnRes' = [err |-> "ok",
                     url |-> getIssuerURL(fnIn.supportedIssuers, fnIn.issuerDID),
                     auth |-> setBasicAuth(fnIn.issuerBasicAuth, fnIn.issuerDID),
                     get |-> GetClaimByID(c, fnIn.issuerDID, FnCredential(NoSubj)),
                     create |-> CreateCredential(c, fnIn.issuerDID, "c2")]
    /\ UNCHANGED <<pc, cfg, owner, now, cred, fetched, timeExp, updatedFields,
                   claim, verdict, credReq, refreshedID, ret, stages, calls,
                   authority, fnIn, fnOut, loads, provided>>

NextFn ==
    \/ ApplyIsUpdatedIndexSlots
    \/ ApplyLoadContexts
    \/ ApplyIssuerLookup

FnSpec == InitFn /\ [][NextFn]_vars

(***************************************************************************)
(* The claims.                                                             *)
(***************************************************************************)
Sent(o) == \E i \in 1..Len(calls) : calls[i].op = o
Passed(st) == \E i \in 1..Len(stages) : stages[i] = st
Returned == pc = "done"
Failed == pc = "done" /\ ret.err # NoErr

\* the stages a create request comes after, in the order of Process
PreCreate ==
    <<"fetch", "structure", "isUpdatable", "checkOwnerShip", "subjectType",
      "provider", "provide", "indexSlots", "merge", "revocationNonce", "schemaID">>

\* what the stages before the create request test, said of the inputs
Eligible ==
    /\ fetched # NoCred
    /\ fetched.issuer # "" /\ fetched.id # "" /\ ~fetched.typeNil
    /\ fetched.exp # NoExp /\ fetched.exp <= now
    /\ fetched.subject # NoSubj
    /\ "id" \in DOMAIN fetched.subject /\ fetched.subject["id"] = Str(owner)
    /\ "type" \in DOMAIN fetched.subject /\ fetched.subject["type"].t = "str"
    /\ fetched.subject["type"].v # <<>>
    /\ claim.parse = "ok" /\ claim.pos \in {"Index", "None"} /\ verdict = "ok"
    /\ fetched.status.t = "obj"
    /\ "revocationNonce" \in DOMAIN fetched.status.v
    /\ fetched.status.v["revocationNonce"].t = "num"
    /\ fetched.schemaID # ""

\* C1: a create request is sent only after fetch, structural validation,
\* isUpdatable, checkOwnerShip, subject-type extraction, provider resolution,
\* provider invocation, the index-impact check with verdict Updated,
\* revocation-nonce extraction and the schema-id check have succeeded, in this
\* order; when one of them fails (a Value position included) none is sent.
C1_CreateOnlyAfterAllStages ==
    Sent("POST") =>
        /\ Len(stages) >= Len(PreCreate)
        /\ SubSeq(stages, 1, Len(PreCreate)) = PreCreate
        /\ Len(calls) >= 3
        /\ calls[1] = [op |-> "GET", ok |-> TRUE]
        /\ calls[2] = [op |-> "Provide", ok |-> TRUE]
        /\ calls[3].op = "POST"
        /\ Eligible

\* C1, witness: the create request was sent and Process returned the credential
C1_Witness ==
    /\ Returned /\ ret.err = NoErr /\ Sent("POST")
    /\ claim.pos = "None"

\* C2, as claimed: whenever Process ends in failure, at any stage (the create
\* call and the final refetch included), the authority holds no credential it
\* did not hold before.
C2_NoSideEffectOnAnyFailure ==
    Failed => authority = {"c1"}

\* C2, amended: whenever Process ends in failure and the authority holds a new
\* credential, the create request had been sent after every earlier stage had
\* succeeded, and the failure is that of the create call or of the refetch; a
\* failure before the create request leaves no new credential.
C2_SideEffectOnlyAfterCreate ==
    (Failed /\ authority # {"c1"}) =>
        /\ Sent("POST")
        /\ Len(stages) >= Len(PreCreate)
        /\ Eligible
        /\ ret.err.is \in {ErrCreateClaim, ErrGetClaim}

\* C2, witness: Process failed at the schema-id check, nothing was created
C2_Witness ==
    /\ Failed /\ Passed("revocationNonce") /\ ~Passed("schemaID")
    /\ ~Sent("POST") /\ authority = {"c1"}

\* C3, as claimed: Process returns a credential and a nil error, or a nil
\* credential and a non-nil error, also when a panic was recovered.
C3_CredentialXorError ==
    Returned =>
        \/ ret.cred # NoCred /\ ret.err = NoErr
        \/ ret.cred = NoCred /\ ret.err # NoErr

\* C4, as claimed: when the fetched credential's expiration is in the future,
\* Process fails with ErrCredentialNotUpdatable and makes no call to the
\* authority; the authority is not contacted before the index-impact check
\* has confirmed Updated.
C4_NoContactBeforeImpact ==
    /\ (Returned /\ fetched # NoCred /\ fetched.exp > now) =>
          /\ ret.err.is = ErrCredentialNotUpdatable
          /\ ~Sent("GET") /\ ~Sent("POST")
    /\ ~Passed("indexSlots") => (~Sent("GET") /\ ~Sent("POST"))

\* C4, amended: when the fetched credential passes the structural checks and
\* its expiration is in the future, Process fails with
\* ErrCredentialNotUpdatable and its only call to the authority is the fetch
\* of that credential; before the index-impact check has confirmed Updated the
\* authority receives that one fetch and no create request.
C4_OnlyTheFetchBeforeImpact ==
    /\ (Returned /\ fetched # NoCred /\ structuralCheck(fetched) = "ok"
        /\ fetched.exp > now) =>
          /\ ret.cred = NoCred
          /\ ret.err.is = ErrCredentialNotUpdatable
          /\ calls = <<[op |-> "GET", ok |-> TRUE]>>
    /\ ~Passed("indexSlots") =>
          /\ ~Sent("POST")
          /\ Cardinality({i \in 1..Len(calls) : calls[i].op = "GET"}) <= 1

\* C4, witness: a well-formed credential that expires later was fetched and
\* rejected
C4_Witness ==
    /\ Returned /\ fetched # NoCred /\ structuralCheck(fetched) = "ok"
    /\ fetched.exp > now
    /\ calls = <<[op |-> "GET", ok |-> TRUE]>>

\* C5, as claimed: the credentialSubject.id of the request equals the
\* subject.id of the fetched credential, which equals the owner, whatever the
\* provider returns.
C5_SubjectIdImmutable ==
    credReq # NoRequest =>
        /\ "id" \in DOMAIN credReq.credentialSubject
        /\ credReq.credentialSubject["id"] = fetched.subject["id"]
        /\ credReq.credentialSubject["id"] = Str(owner)

\* a string that is empty or holds spaces alone
Blank(str) == \A i \in 1..Len(str) : str[i] = 0

\* the subject.id that isUpdatable rejects: missing, null, not a string, blank
BadSubjectId(subject) ==
    \/ "id" \notin DOMAIN subject
    \/ subject["id"].t = "null"
    \/ subject["id"].t # "str"
    \/ Blank(subject["id"].v)

\* C6: isUpdatable fails for every credential that expires strictly after the
\* current time and for every credential whose subject.id is missing, null, not
\* a string or blank, and succeeds for every other one (expiration equal to the
\* current time included); in Process its failure is ErrCredentialNotUpdatable.
C6_IsUpdatable ==
    (fetched # NoCred /\ structuralCheck(fetched) = "ok") =>
        LET bad == fetched.exp > Second \/ BadSubjectId(fetched.subject)
        IN  /\ (isUpdatable(fetched, Second) # "ok") <=> bad
            /\ (Passed("structure") /\ pc # "valid") =>
                  IF bad
                  THEN /\ Failed /\ ret.cred = NoCred
                       /\ ret.err.is = ErrCredentialNotUpdatable
                       /\ ~Passed("isUpdatable")
                  ELSE Passed("isUpdatable")

\* C6, witness: a credential that expires at the current time exactly has
\* passed isUpdatable
C6_Witness ==
    /\ fetched # NoCred /\ fetched.exp = Second
    /\ Passed("isUpdatable") /\ pc = "eligible"

\* C7: checkOwnerShip fails exactly when subject.id is not the very string
\* owner (no trimming, no case folding, a value that is no string never
\* matches); Process invokes no provider and sends no create request for a
\* credential whose subject.id differs from the owner.
C7_CheckOwnerShip ==
    (fetched # NoCred /\ structuralCheck(fetched) = "ok") =>
        LET own == /\ "id" \in DOMAIN fetched.subject
                   /\ fetched.subject["id"].t = "str"
                   /\ fetched.subject["id"].v = owner
        IN  /\ (checkOwnerShip(fetched, owner) = "ok") <=> own
            /\ (Passed("isUpdatable") /\ pc # "eligible") =>
                  IF own THEN Passed("checkOwnerShip")
                  ELSE /\ Failed /\ ret.err.is = ErrCredentialNotUpdatable
                       /\ ~Passed("checkOwnerShip")
            /\ (Sent("Provide") \/ Sent("POST")) => own

\* C7, witness: a subject.id that differs from the owner by a leading space
\* was rejected by checkOwnerShip
C7_Witness ==
    /\ Failed /\ Passed("isUpdatable") /\ ~Passed("checkOwnerShip")
    /\ fetched.subject["id"].t = "str"
    /\ fetched.subject["id"].v # owner
    /\ TrimSpace(fetched.subject["id"].v) = owner

\* C10: the credentialSubject of the request is the old subject overlaid with
\* the provider's fields: a key the provider returned carries the provider's
\* value, any other key of the old subject its old value, and there is no
\* other key.
C10_OverlayMerge ==
    credReq # NoRequest =>
        /\ DOMAIN credReq.credentialSubject =
              DOMAIN fetched.subject \cup DOMAIN updatedFields
        /\ \A k \in DOMAIN updatedFields :
              credReq.credentialSubject[k] = updatedFields[k]
        /\ \A k \in DOMAIN fetched.subject \ DOMAIN updatedFields :
              credReq.credentialSubject[k] = fetched.subject[k]

\* C10, witness: the provider overwrote f, added h and left type alone
C10_Witness ==
    /\ credReq # NoRequest
    /\ "f" \in DOMAIN fetched.subject /\ "f" \in DOMAIN updatedFields
    /\ updatedFields["f"] # fetched.subject["f"]
    /\ "h" \in DOMAIN updatedFields
    /\ "type" \notin DOMAIN updatedFields

\* the fields of the old subject that the range loop looks at
NonReserved(oldValues) == DOMAIN oldValues \ {"id", "type"}

\* C8: in the Index position the verdict is Updated and in the Value position
\* it is NotUpdated, for every old and new subject (the empty set of changes
\* included) and whatever slot resolution would answer.
C8_PositionAlone ==
    (fnOut # "" /\ fnIn.claim.parse = "ok") =>
        /\ fnIn.claim.pos = "Index" => fnOut = "ok"
        /\ fnIn.claim.pos = "Value" => fnOut = errIndexSlotsNotUpdated

\* C8, witness: Index position, no proposed change, failing slot resolution,
\* verdict Updated
C8_Witness ==
    /\ fnOut = "ok" /\ fnIn.claim.pos = "Index"
    /\ fnIn.newValues = EmptyMap
    /\ NonReserved(fnIn.oldValues) = {"f", "g"}
    /\ fnIn.claim.slot["f"].err = "other"

\* the fields that are in both subjects, resolve to slot 2 or 3, and differ
Changed(oldValues, newValues, slot) ==
    {k \in NonReserved(oldValues) :
        /\ k \in DOMAIN newValues
        /\ slot[k].err = "none" /\ slot[k].idx \in {2, 3}
        /\ oldValues[k] # newValues[k]}

\* the fields that are in both subjects, resolve to slot 2 or 3, and hold two
\* values that Go cannot compare
Uncomparable(oldValues, newValues, slot) ==
    {k \in NonReserved(oldValues) :
        /\ k \in DOMAIN newValues
        /\ slot[k].err = "none" /\ slot[k].idx \in {2, 3}
        /\ oldValues[k].t = "map" /\ newValues[k].t = "map"}

\* C9, as claimed: in the None position the verdict is Updated when some field
\* other than id and type differs in the new subject and resolves to slot 2 or
\* 3, and NotUpdated when there is none, whatever slot resolution answers for
\* the other fields and in every order of iteration.
C9_NoneVerdict ==
    (fnOut # "" /\ fnIn.claim.parse = "ok" /\ fnIn.claim.pos = "None") =>
        IF Changed(fnIn.oldValues, fnIn.newValues, fnIn.claim.slot) # {}
        THEN fnOut = "ok"
        ELSE fnOut = errIndexSlotsNotUpdated

\* C9, amended: in the None position, when slot resolution succeeds for every
\* field of the old subject other than id and type, the verdict is Updated
\* when some such field differs in the new subject and resolves to slot 2 or
\* 3, and NotUpdated when there is none, in every order of iteration; save
\* that the comparison of two uncomparable values in slot 2 or 3 panics when
\* the loop reaches it before a field that decides.
C9_NoneVerdictWhenSlotsResolve ==
    (/\ fnOut # "" /\ fnIn.claim.parse = "ok" /\ fnIn.claim.pos = "None"
     /\ \A k \in NonReserved(fnIn.oldValues) : fnIn.claim.slot[k].err = "none") =>
        LET changed == Changed(fnIn.oldValues, fnIn.newValues, fnIn.claim.slot)
            faulty == Uncomparable(fnIn.oldValues, fnIn.newValues, fnIn.claim.slot)
        IN  /\ faulty = {} =>
                  IF changed # {} THEN fnOut = "ok"
                  ELSE fnOut = errIndexSlotsNotUpdated
            /\ faulty # {} =>
                  IF changed # {} THEN fnOut \in {"ok", "panic"}
                  ELSE fnOut = "panic"

\* C9, witness: two fields, the one in slot 3 changed, verdict Updated
C9_Witness ==
    /\ fnOut = "ok" /\ fnIn.claim.parse = "ok" /\ fnIn.claim.pos = "None"
    /\ NonReserved(fnIn.oldValues) = {"f", "g"}
    /\ \A k \in {"f", "g"} : fnIn.claim.slot[k].err = "none"
    /\ Changed(fnIn.oldValues, fnIn.newValues, fnIn.claim.slot) = {"g"}
    /\ fnIn.claim.slot["g"].idx = 3

\* whether the status of the fetched credential is a map that holds a number
\* under revocationNonce
NumericNonce ==
    /\ fetched.status.t = "obj"
    /\ "revocationNonce" \in DOMAIN fetched.status.v
    /\ fetched.status.v["revocationNonce"].t = "num"

\* C11: extractRevocationNonce returns the revocationNonce of a status that is
\* a map holding a number (as a uint64: a whole number itself, any other one
\* without its fraction) and an error otherwise; in Process that error ends
\* the invocation before a create request, and a create request carries the
\* nonce of the fetched credential.
C11_RevocationNonce ==
    fetched # NoCred =>
        LET r == extractRevocationNonce(fetched)
        IN  /\ IF NumericNonce
               THEN /\ r.err = "ok"
                    /\ fetched.status.v["revocationNonce"] \in {Num(r.n), NumHalf(r.n)}
               ELSE r.err # "ok"
            /\ (Passed("merge") /\ pc # "merged" /\ ~NumericNonce) =>
                  /\ Failed /\ ret.cred = NoCred
                  /\ ~Passed("revocationNonce") /\ ~Sent("POST")
                  /\ credReq = NoRequest
            /\ Sent("POST") => (credReq # NoRequest /\ NumericNonce)
            /\ credReq # NoRequest =>
                  /\ NumericNonce
                  /\ fetched.status.v["revocationNonce"]
                        \in {Num(credReq.revNonce), NumHalf(credReq.revNonce)}

\* C11, witness: the create request was sent with the nonce 5 of the fetched
\* credential
C11_Witness ==
    /\ Sent("POST") /\ credReq # NoRequest
    /\ fetched.status.v["revocationNonce"] = Num(5)
    /\ credReq.revNonce = 5

\* the entries of the URIs of a list that resolve to a document holding
\* "@context", in the order of the list
RECURSIVE ResolvedEntries(_, _)
ResolvedEntries(contexts, loader) ==
    IF contexts = <<>> THEN <<>>
    ELSE (IF Head(contexts) # "" /\ loader[Head(contexts)] = "array2"
          THEN << <<Head(contexts), 1>>, <<Head(contexts), 2>> >>
          ELSE IF Head(contexts) # "" /\ loader[Head(contexts)] = "scalar"
          THEN << <<Head(contexts), 0>> >>
          ELSE <<>>)
         \o ResolvedEntries(Tail(contexts), loader)

\* C12: loadContexts does not fail, and the "@context" of the document it
\* returns is an array that holds, in the order of the URIs, the entries of
\* the URIs that resolved: the empty array for the empty list and when no URI
\* resolves.
C12_ContextArray ==
    (fnIn.op = "loadContexts" /\ fnRes # NoResult) =>
        /\ fnRes.err = "ok"
        /\ fnRes.context = [t |-> "arr", v |-> ResolvedEntries(fnIn.contexts, fnIn.loader)]

\* how many calls of the operation o were made
Count(o) == Cardinality({i \in 1..Len(calls) : calls[i].op = o})

C14_ReturnsTheRefetched ==
    (Returned /\ ret.cred # NoCred) =>
        /\ ret.err = NoErr
        /\ Len(calls) = 4
        /\ calls[3] = [op |-> "POST", ok |-> TRUE]
        /\ calls[4] = [op |-> "GET", ok |-> TRUE]
        /\ refreshedID # "" /\ refreshedID \in authority
        /\ ret.cred.id = refreshedID
        /\ ret.cred.id # fetched.id
        /\ ret.cred = Issued(credReq, refreshedID)
        /\ ret.cred # cred /\ ret.cred # fetched

\* C14, witness: Process returned the credential c2 for the original c1
C14_Witness ==
    /\ Returned /\ ret.cred # NoCred
    /\ fetched.id = "c1" /\ ret.cred.id = "c2"
    /\ cred.subject # fetched.subject

\* whether the range loop passes over the field k: its slot resolves, and it
\* is absent from the new subject, or outside slots 2 and 3, or holds the same
\* value in both subjects
PassedOver(k, oldValues, newValues, slot) ==
    /\ slot[k].err = "none"
    /\ \/ k \notin DOMAIN newValues
       \/ slot[k].idx \notin {2, 3}
       \/ /\ ~(oldValues[k].t = "map" /\ newValues[k].t = "map")
          /\ oldValues[k] = newValues[k]

\* whether the range loop, visiting the keys in the order o, comes to the
\* i-th of them
Visited(i, o, oldValues, newValues, slot) ==
    \A j \in 1..(i - 1) :
        o[j] \in {"id", "type"} \/ PassedOver(o[j], oldValues, newValues, slot)

\* C15: in the None position, when the loop comes to a field other than id and
\* type whose slot resolution answers "not specified in serialization info",
\* the verdict is Updated at once, whatever the values are; when it comes to
\* one whose slot resolution fails otherwise, that error is returned, which is
\* neither Updated nor the plain NotUpdated.
C15_SlotResolutionErrors ==
    (/\ fnIn.op = "isUpdatedIndexSlots" /\ fnOut # ""
     /\ fnIn.claim.parse = "ok" /\ fnIn.claim.pos = "None") =>
        \A i \in 1..Len(fnRes.order) :
            (/\ fnRes.order[i] \notin {"id", "type"}
             /\ Visited(i, fnRes.order, fnIn.oldValues, fnIn.newValues, fnIn.claim.slot)) =>
                /\ fnIn.claim.slot[fnRes.order[i]].err = "unspec" => fnOut = "ok"
                /\ fnIn.claim.slot[fnRes.order[i]].err = "other" =>
                      /\ fnOut = "slot index error"
                      /\ fnOut \notin {"ok", errIndexSlotsNotUpdated}

\* C15, witness: Updated for a subject of two fields of which the provider
\* returned none, one of them not specified in the serialization info
C15_Witness ==
    /\ fnIn.op = "isUpdatedIndexSlots" /\ fnOut = "ok"
    /\ fnIn.claim.parse = "ok" /\ fnIn.claim.pos = "None"
    /\ NonReserved(fnIn.oldValues) = {"f", "g"}
    /\ fnIn.newValues = EmptyMap
    /\ fnIn.claim.slot["f"].err = "none" /\ fnIn.claim.slot["g"].err = "unspec"

\* isUpdatedIndexSlots applied on its own in the None position
NoneApplied ==
    /\ fnIn.op = "isUpdatedIndexSlots" /\ fnOut # ""
    /\ fnIn.claim.parse = "ok" /\ fnIn.claim.pos = "None"

\* the outcome of isUpdatedIndexSlots for the inputs of the application and
\* the iteration order o
OutcomeFor(o) ==
    isUpdatedIndexSlots(FnCredential(fnIn.oldValues), fnIn.oldValues,
                        fnIn.newValues, fnIn.claim, o)

\* C16 as stated: in the None position the outcome is the same for every
\* iteration order of the fields of the old subject.
C16_OrderIndependent ==
    NoneApplied => \A o \in Orders(fnIn.oldValues) : OutcomeFor(o) = fnOut

\* the outcomes that the fields other than id and type decide, each taken
\* alone: none for a field the loop passes over, else Updated (unspecified
\* in the serialization info, or another value in slot 2 or 3), the error of
\* a failed slot resolution, or the fault of two uncomparable values
Decided(oldValues, newValues, slot) ==
    {IF slot[k].err = "unspec" THEN "ok"
     ELSE IF slot[k].err # "none" THEN "slot index error"
     ELSE IF oldValues[k].t = "map" /\ newValues[k].t = "map" THEN "panic"
     ELSE "ok" :
        k \in {x \in NonReserved(oldValues) :
                  ~PassedOver(x, oldValues, newValues, slot)}}

\* C16: in the None position the outcome is NotUpdated when no field decides,
\* and otherwise what the first deciding field in iteration order decides; so
\* it is the same for every order when the deciding fields decide alike, and
\* when they do not, every one of their outcomes is the outcome of some order.
C16_FirstDecidingField ==
    NoneApplied =>
        LET D == Decided(fnIn.oldValues, fnIn.newValues, fnIn.claim.slot)
        IN  /\ D = {} =>
                  \A o \in Orders(fnIn.oldValues) : OutcomeFor(o) = errIndexSlotsNotUpdated
            /\ D # {} => fnOut \in D
            /\ Cardinality(D) = 1 =>
                  \A o \in Orders(fnIn.oldValues) : OutcomeFor(o) = fnOut
            /\ \A d \in D : \E o \in Orders(fnIn.oldValues) : OutcomeFor(o) = d
            /\ \A i \in 1..Len(fnRes.order) :
                  (/\ fnRes.order[i] \notin {"id", "type"}
                   /\ Visited(i, fnRes.order, fnIn.oldValues, fnIn.newValues, fnIn.claim.slot)
                   /\ ~PassedOver(fnRes.order[i], fnIn.oldValues, fnIn.newValues,
                                  fnIn.claim.slot)) =>
                      {fnOut} = Decided([k \in {"type", fnRes.order[i]} |-> fnIn.oldValues[k]],
                                        fnIn.newValues, fnIn.claim.slot)

\* C16, witness: Updated for the order that visits the unspecified field g
\* before the field f whose slot resolution fails
C16_Witness ==
    /\ NoneApplied /\ fnOut = "ok"
    /\ NonReserved(fnIn.oldValues) = {"f", "g"}
    /\ fnIn.claim.slot["f"].err = "other" /\ fnIn.claim.slot["g"].err = "unspec"
    /\ \E i, j \in 1..Len(fnRes.order) :
          i < j /\ fnRes.order[i] = "g" /\ fnRes.order[j] = "f"

\* the map m without the keys outside the set ks
Restrict(m, ks) == [k \in DOMAIN m \cap ks |-> m[k]]

\* C17 as stated: in the None position a provider result that is nil or empty
\* gives the verdict NotUpdated unless a field of the old subject is
\* unspecified in the serialization info, and Process ends with
\* ErrCredentialNotUpdatable without a create request.
C17_EmptyResultIsNotUpdated ==
    (/\ verdict # "" /\ claim.parse = "ok" /\ claim.pos = "None"
     /\ provided \in {NoSubj, EmptyMap}
     /\ \A k \in NonReserved(fetched.subject) : claim.slot[k].err # "unspec") =>
        /\ verdict = errIndexSlotsNotUpdated
        /\ Failed /\ ret.err.is = ErrCredentialNotUpdatable
        /\ ~Sent("POST")

\* C17: in the None position only the fields of the old subject can make the
\* verdict Updated: the keys that only the provider returned do not change
\* the outcome, a field the provider did not return is passed over once its
\* slot resolved, and for a provider result that is nil or empty (both become
\* the empty map) the verdict is not Updated unless a field is unspecified in
\* the serialization info: it is NotUpdated, or the error of a failed slot
\* resolution, and Process ends with ErrCredentialNotUpdatable without a
\* create request.
C17_OnlyOldFieldsCount ==
    (verdict # "" /\ claim.parse = "ok" /\ claim.pos = "None") =>
        LET old == fetched.subject
            unspec == {k \in NonReserved(old) : claim.slot[k].err = "unspec"}
            failing == {k \in NonReserved(old) : claim.slot[k].err = "other"}
        IN  /\ verdict = "ok" =>
                  \E k \in NonReserved(old) :
                      \/ k \in unspec
                      \/ /\ k \in DOMAIN updatedFields
                         /\ claim.slot[k].idx \in {2, 3}
                         /\ old[k] # updatedFields[k]
            /\ \A o \in Orders(old) :
                  isUpdatedIndexSlots(fetched, old, updatedFields, claim, o)
                     = isUpdatedIndexSlots(fetched, old,
                                           Restrict(updatedFields, DOMAIN old), claim, o)
            /\ (\A k \in NonReserved(old) : k \notin DOMAIN updatedFields) =>
                  verdict = (IF unspec # {} THEN "ok"
                             ELSE IF failing # {} THEN "slot index error"
                             ELSE errIndexSlotsNotUpdated)
            /\ provided \in {NoSubj, EmptyMap} =>
                  /\ updatedFields = EmptyMap
                  /\ unspec = {} =>
                        /\ verdict # "ok"
                        /\ failing = {} => verdict = errIndexSlotsNotUpdated
                        /\ Failed /\ ret.err.is = ErrCredentialNotUpdatable
                        /\ ~Sent("POST") /\ credReq = NoRequest

\* C17, witness: the provider returned nil for a subject that holds the field
\* f, the verdict is NotUpdated and Process ended with the rejection
C17_Witness ==
    /\ provided = NoSubj /\ claim.pos = "None"
    /\ "f" \in DOMAIN fetched.subject
    /\ claim.slot["f"] = [err |-> "none", idx |-> 2]
    /\ verdict = errIndexSlotsNotUpdated
    /\ Failed /\ ret.err.is = ErrCredentialNotUpdatable

\* C18: the type of a create request is the type held in the subject of the
\* request, and both are the type of the subject of the fetched credential,
\* whatever the provider returned.
C18_RequestTypeIsSubjectType ==
    credReq # NoRequest =>
        /\ fetched.subject["type"] = Str(credReq.type)
        /\ "type" \in DOMAIN credReq.credentialSubject
        /\ credReq.credentialSubject["type"] = Str(credReq.type)

\* C19 as stated: the expiration of a create request is later than the time
\* at which the request was built, for every duration that is not negative.
C19_ExpirationInTheFuture ==
    credReq # NoRequest => credReq.expiration * Second > now

\* C19: after Provide the duration is the configured one, five minutes when
\* that was zero; the expiration of a create request is the second that holds
\* the time at which the request was built plus that duration, which is later
\* than that time for five minutes and every duration of a second or more,
\* and never earlier than the second in which the request was built.
C19_Expiration ==
    /\ Passed("provide") =>
          /\ timeExp > 0
          /\ timeExp \in (Durations \ {0}) \cup {FiveMinutes}
    /\ credReq # NoRequest =>
          /\ credReq.expiration = (now + timeExp) \div Second
          /\ credReq.expiration >= now \div Second
          /\ timeExp >= Second =>
                /\ credReq.expiration * Second > now
                /\ Issued(credReq, "c2").exp > now

\* C19, witness: a request built with the default of five minutes
C19_Witness ==
    /\ credReq # NoRequest /\ timeExp = FiveMinutes
    /\ credReq.expiration * Second > now
    /\ Sent("POST")

\* the entry that a map from issuers has for the issuer did: its own when
\* there is one, else the wildcard's, else none
EntryFor(m, did) ==
    IF did \in DOMAIN m THEN {m[did]}
    ELSE IF "*" \in DOMAIN m THEN {m["*"]} ELSE {}

\* C20: getIssuerURL answers the entry of the issuer when there is one, else
\* the wildcard entry, else ErrIssuerNotSupported; setBasicAuth takes its
\* entry in the same way; and when there is no URL, GetClaimByID and
\* CreateCredential fail with ErrIssuerNotSupported and send no request.
C20_IssuerLookup ==
    (fnIn.op = "issuer" /\ fnRes # NoResult) =>
        LET urls == EntryFor(fnIn.supportedIssuers, fnIn.issuerDID)
            auths == IF fnIn.issuerBasicAuth = NoAuth THEN {}
                     ELSE EntryFor(fnIn.issuerBasicAuth.v, fnIn.issuerDID)
        IN  /\ \A u \in urls : fnRes.url = [err |-> "ok", url |-> u]
            /\ urls = {} => fnRes.url.err = ErrIssuerNotSupported
            /\ auths = {} => fnRes.auth = [err |-> "ok", auth |-> <<>>]
            /\ \A a \in auths :
                  IF Len(a) = 3
                  THEN fnRes.auth = [err |-> "ok", auth |-> << <<a[1]>>, <<a[3]>> >>]
                  ELSE fnRes.auth.err = "invalid basic auth"
            /\ urls = {} =>
                  /\ \A r \in fnRes.get :
                        ~r.sent /\ r.cred = NoCred /\ r.err.is = ErrIssuerNotSupported
                  /\ \A r \in fnRes.create :
                        /\ ~r.sent /\ ~r.created /\ r.id = ""
                        /\ r.err.is = ErrIssuerNotSupported
            /\ (urls # {} /\ fnRes.auth.err = "ok") =>
                  /\ \A r \in fnRes.get \cup fnRes.create : r.sent
                  /\ \E r \in fnRes.get : r.err = NoErr
                  /\ \E r \in fnRes.create : r.err = NoErr

\* C20, witness: the URL and the credentials of the issuer's own entries were
\* taken although the wildcard has entries too
C20_Witness ==
    /\ fnIn.op = "issuer" /\ fnRes # NoResult
    /\ {fnIn.issuerDID, "*"} \subseteq DOMAIN fnIn.supportedIssuers
    /\ fnIn.issuerBasicAuth # NoAuth
    /\ {fnIn.issuerDID, "*"} \subseteq DOMAIN fnIn.issuerBasicAuth.v
    /\ fnRes.url.url = "http://iss"
    /\ fnRes.auth.auth = << <<"u">>, <<"p">> >>

====
